---- MODULE Spec2Model ----
(***************************************************************************)
(* Model of the Anvaya backend's admin route handlers                      *)
(* (backend/app/api/admin.py) over the data-access layer                   *)
(* (backend/app/services/crud.py), the relational store and the media      *)
(* host.  One action per route handler; each action is the whole handler,   *)
(* including the CRUDService calls and media-host calls it makes.          *)
(*                                                                         *)
(* Conventions.  Text is a sequence of one-character strings, so that       *)
(* str.strip(), str.lower() and rsplit(".") are computed, not assumed.      *)
(* Python's None is the one-element sequence <<"None">>, which is no text.  *)
(* A media-host folder f"anvaya/{slug}" is the sequence <<"anvaya", slug>>. *)
(***************************************************************************)
EXTENDS Integers, Sequences, FiniteSets, TLC

\* ------------------------------------------------------------------ bounds
\* Largest number of files in one upload_photos batch.
MaxBatch == 2
\* Number of assets the media host hands out identifiers for.
MaxAssets == 2
\* Number of Activity identifiers the store's sequence hands out.
MaxActivityId == 2

VARIABLES
    wings,          \* Wing rows: [id, slug, name]
    photos,         \* Photo rows: [id, wing_id, url, cloudinary_id,
                    \* uploaded_at]
    activities,     \* Activity rows
    nextPhotoId,    \* the Photo table's autoincrement sequence
    nextActivityId, \* the Activity table's autoincrement sequence
    assets,         \* public ids of the assets held by the media host
    nextAsset,      \* the media host's identifier sequence
    req,            \* the request being served: handler, inputs, whether
                    \* the store failed during it; [op |-> "none"] between
                    \* requests
    resp,           \* the response to it: [status, error_code]
    calls,          \* the media-host calls it issued, in order
    inflight        \* the requests served concurrently, by session: how
                    \* far each has come and what its session has loaded

vars == <<wings, photos, activities, nextPhotoId, nextActivityId,
          assets, nextAsset, req, resp, calls, inflight>>

\* ---------------------------------------------------------------- values
None == <<"None">>

\* Python truthiness of an Optional[str] / Optional[sequence].
Truthy(x) == x # None /\ x # <<>>

Whitespace == {" ", "\t"}

\* str.strip(): drop leading and trailing whitespace.
RECURSIVE lstrip(_)
lstrip(s) ==
    IF s # <<>> /\ Head(s) \in Whitespace THEN lstrip(Tail(s)) ELSE s

RECURSIVE rstrip(_)
rstrip(s) ==
    IF s # <<>> /\ s[Len(s)] \in Whitespace
    THEN rstrip(SubSeq(s, 1, Len(s) - 1))
    ELSE s

strip(s) == rstrip(lstrip(s))

\* str.lower(), one character at a time.
UpperCase ==
    << "A", "B", "C", "D", "E", "F", "G", "H", "I", "J", "K", "L", "M",
       "N", "O", "P", "Q", "R", "S", "T", "U", "V", "W", "X", "Y", "Z" >>

LowerCase ==
    << "a", "b", "c", "d", "e", "f", "g", "h", "i", "j", "k", "l", "m",
       "n", "o", "p", "q", "r", "s", "t", "u", "v", "w", "x", "y", "z" >>

lower_char(c) ==
    IF \E i \in 1..Len(UpperCase) : UpperCase[i] = c
    THEN LowerCase[CHOOSE i \in 1..Len(UpperCase) : UpperCase[i] = c]
    ELSE c

lower(s) == [i \in 1..Len(s) |-> lower_char(s[i])]

\* "." + filename.rsplit(".", 1)[-1].lower() if "." in filename else ""
file_ext(filename) ==
    IF \E i \in 1..Len(filename) : filename[i] = "."
    THEN LET last == CHOOSE i \in 1..Len(filename) :
                        /\ filename[i] = "."
                        /\ \A j \in (i + 1)..Len(filename) : filename[j] # "."
         IN  <<".">> \o lower(SubSeq(filename, last + 1, Len(filename)))
    ELSE <<>>

ALLOWED_IMAGE_EXTENSIONS ==
    { <<".", "j", "p", "g">>, <<".", "j", "p", "e", "g">>,
      <<".", "p", "n", "g">>, <<".", "g", "i", "f">>,
      <<".", "w", "e", "b", "p">> }

ALLOWED_PDF_EXTENSIONS == { <<".", "p", "d", "f">> }

\* ------------------------------------------------------------- responses
Response(status, error_code) == [status |-> status, error_code |-> error_code]

OK == Response(200, "OK")
NotFoundError == Response(404, "NOT_FOUND")
ValidationError == Response(422, "VALIDATION_ERROR")
FileUploadError == Response(400, "FILE_UPLOAD_ERROR")
ExternalServiceError == Response(502, "EXTERNAL_SERVICE_ERROR")
\* A store failure is re-raised by CRUDService as it is (no AnvayaException)
\* and reaches the generic handler.
InternalServerError == Response(500, "INTERNAL_SERVER_ERROR")

\* ------------------------------------------------------------ validation
\* validate_image_file: the exception it raises, or OK.
validate_image_file(file) ==
    IF ~Truthy(file.filename) THEN ValidationError
    ELSE IF file_ext(file.filename) \notin ALLOWED_IMAGE_EXTENSIONS
         THEN FileUploadError
         ELSE OK

validate_pdf_file(file) ==
    IF ~Truthy(file.filename) THEN ValidationError
    ELSE IF file_ext(file.filename) \notin ALLOWED_PDF_EXTENSIONS
         THEN FileUploadError
         ELSE OK

\* A loop that validates the first file alone.
validate_first_image_only(files) ==
    IF files = <<>> THEN OK ELSE validate_image_file(files[1])

\* "for file in files: validate_image_file(file)": the exception of the
\* first file that fails, or OK when none does.
validate_all_images(files) ==
    IF \A i \in 1..Len(files) : validate_image_file(files[i]) = OK
    THEN OK
    ELSE validate_image_file(
             files[CHOOSE i \in 1..Len(files) :
                      /\ validate_image_file(files[i]) # OK
                      /\ \A j \in 1..(i - 1) :
                            validate_image_file(files[j]) = OK])

\* ----------------------------------------------------------- data access
\* A lookup without its where clause: the first wing, whatever the id.
get_first_wing(wing_id) ==
    {w \in wings : \A v \in wings : w.id <= v.id}

\* scalar_one_or_none() is the set of matching rows: {} is "not found".
get_wing_by_id(wing_id) == {w \in wings : w.id = wing_id}

get_photo_by_id(photo_id) == {p \in photos : p.id = photo_id}

get_activity_by_id(activity_id) == {a \in activities : a.id = activity_id}

\* The row of a non-empty lookup.
Row(found) == CHOOSE r \in found : TRUE

\* Photo.uploaded_at, the creation timestamp the store fills in: the photos
\* of one transaction share it, a later transaction's is later.
uploaded_at_default == nextPhotoId

\* What the store does to a create or an update of CRUDService, whose try
\* block holds a commit and, after it, a refresh of each row: both succeed,
\* the commit raises, or the commit succeeds and a refresh raises.
StoreOutcomes == {"ok", "commit_failed", "refresh_failed"}

\* "await session.commit()" went through: the rollback in the except
\* clause undoes what is not committed, and nothing that is.
committed(store) == store # "commit_failed"

\* The exception of either store call is re-raised and reaches the generic
\* handler.
store_response(store) == IF store = "ok" THEN OK ELSE InternalServerError

\* CRUDService.create_photos_bulk: add_all + commit gives every photo the next
\* identifier of the sequence; a failed commit rolls the whole batch back.
\* The Photo table after the call.
create_photos_bulk(new_photos, store) ==
    IF committed(store)
    THEN photos \cup
         { [id |-> nextPhotoId + i - 1,
            wing_id |-> new_photos[i].wing_id,
            url |-> new_photos[i].url,
            cloudinary_id |-> new_photos[i].cloudinary_id,
            uploaded_at |-> uploaded_at_default]
           : i \in 1..Len(new_photos) }
    ELSE photos

\* CRUDService.delete_photo: delete(Photo).where(Photo.id == photo_id).
CRUD_delete_photo(photo_id, store_ok) ==
    IF store_ok THEN {p \in photos : p.id # photo_id} ELSE photos

\* CRUDService.create_activity: add + commit gives the activity the next
\* identifier; a failed commit rolls back.  The Activity table after it.
CRUD_create_activity(activity, store) ==
    IF committed(store)
    THEN activities \cup
         { [id |-> nextActivityId,
            wing_id |-> activity.wing_id,
            title |-> activity.title,
            description |-> activity.description,
            activity_date |-> activity.activity_date,
            faculty_coordinator |-> activity.faculty_coordinator,
            report_url |-> activity.report_url,
            report_cloudinary_id |-> activity.report_cloudinary_id] }
    ELSE activities

\* The loop without its hasattr test: every key is set.
apply_every_key(activity, update_data) == update_data @@ activity

\* "for key, value in update_data.items(): if hasattr(activity, key):
\*  setattr(activity, key, value)": the activity with the keys applied.
apply_update_data(activity, update_data) ==
    [k \in DOMAIN activity |->
        IF k \in DOMAIN update_data THEN update_data[k] ELSE activity[k]]

\* CRUDService.update_activity: the Activity table after the call (the
\* handler has checked that the activity exists).
CRUD_update_activity(activity_id, update_data, store) ==
    IF committed(store) /\ get_activity_by_id(activity_id) # {}
    THEN {a \in activities : a.id # activity_id} \cup
         { apply_update_data(Row(get_activity_by_id(activity_id)),
                             update_data) }
    ELSE activities

\* CRUDService.delete_activity
CRUD_delete_activity(activity_id, store_ok) ==
    IF store_ok THEN {a \in activities : a.id # activity_id} ELSE activities

\* ------------------------------------------------------------ media host
\* The media-host client (app/services/cloudinary.py).  An upload either
\* raises or returns one {url, public_id} per file, the public id lying in
\* the folder it was given; identifiers are never reused.
public_id_in(folder, k) == folder \o <<k>>

url_of(public_id) == <<"https">> \o public_id

upload_images_bulk(files, folder) ==
    [i \in 1..Len(files) |->
        [url |-> url_of(public_id_in(folder, nextAsset + i - 1)),
         public_id |-> public_id_in(folder, nextAsset + i - 1)]]

upload_pdf(file, folder) ==
    [url |-> url_of(public_id_in(folder, nextAsset)),
     public_id |-> public_id_in(folder, nextAsset)]

\* A media-host call as the request issued it.
UploadCall(fn, folder, n, ok) ==
    [fn |-> fn, folder |-> folder, n |-> n, public_id |-> None,
     resource_type |-> "", ok |-> ok]

DeleteCall(public_id, resource_type, ok) ==
    [fn |-> "delete_media", folder |-> <<>>, n |-> 0, public_id |-> public_id,
     resource_type |-> resource_type, ok |-> ok]

\* delete_media removes the asset when it succeeds.
after_delete_media(public_id, ok) ==
    IF ok THEN assets \ {public_id} ELSE assets

\* ------------------------------------------------------ request plumbing
Idle == req.op = "none"

\* The sessions that serve requests concurrently with one another.
Sessions == {1, 2}

\* A session that serves no request.
NoSession == [pc |-> "idle"]

NoSessions == [s \in Sessions |-> NoSession]

\* The handler ends: the request, its response, its media-host calls.
Reply(request, response, issued) ==
    /\ req' = request
    /\ resp' = response
    /\ calls' = issued
    /\ inflight' = inflight

\* The response is sent and the request-scoped context is dropped.
Respond ==
    /\ ~Idle
    /\ req' = [op |-> "none"]
    /\ resp' = OK
    /\ calls' = <<>>
    /\ UNCHANGED <<wings, photos, activities, nextPhotoId, nextActivityId,
                   assets, nextAsset, inflight>>

\* ------------------------------------------------------- photo handlers
\* folder = f"anvaya/{wing.slug}"
photo_folder(wing) == <<"anvaya", wing.slug>>

\* A comprehension that stops one upload result short.
build_photos_one_short(wing_id, uploaded_files) ==
    [i \in 1..(Len(uploaded_files) - 1) |->
        [wing_id |-> wing_id,
         url |-> uploaded_files[i].url,
         cloudinary_id |-> uploaded_files[i].public_id]]

\* photos = [Photo(wing_id=wing_id, url=..., cloudinary_id=...) for ...]
build_photos(wing_id, uploaded_files) ==
    [i \in 1..Len(uploaded_files) |->
        [wing_id |-> wing_id,
         url |-> uploaded_files[i].url,
         cloudinary_id |-> uploaded_files[i].public_id]]

\* The upload's exception left uncaught: it reaches the generic handler.
images_upload_failure_uncaught == InternalServerError

\* except Exception: raise ExternalServiceError("Cloudinary", ...)
images_upload_failure == ExternalServiceError

UploadPhotosRequest(wing_id, files, store_failed) ==
    [op |-> "upload_photos", wing_id |-> wing_id, files |-> files,
     store_failed |-> store_failed]

\* POST /admin/photos
upload_photos(wing_id, files) ==
    LET wing == get_wing_by_id(wing_id)
        request == UploadPhotosRequest(wing_id, files, FALSE)
    IN
    /\ Idle
    /\ UNCHANGED <<wings, activities, nextActivityId>>
    /\ IF wing = {}
       THEN /\ Reply(request, NotFoundError, <<>>)
            /\ UNCHANGED <<photos, nextPhotoId, assets, nextAsset>>
       ELSE IF validate_all_images(files) # OK
       THEN /\ Reply(request, validate_all_images(files), <<>>)
            /\ UNCHANGED <<photos, nextPhotoId, assets, nextAsset>>
       ELSE LET folder == photo_folder(Row(wing))
                uploaded_files == upload_images_bulk(files, folder)
            IN
            \/ \* upload_images_bulk raises
               /\ Reply(request, images_upload_failure,
                        << UploadCall("upload_images_bulk", folder,
                                      Len(files), FALSE) >>)
               /\ UNCHANGED <<photos, nextPhotoId, assets, nextAsset>>
            \/ \* upload_images_bulk returns, then create_photos_bulk
               /\ nextAsset + Len(files) - 1 <= MaxAssets
               /\ assets' = assets \cup
                      {uploaded_files[i].public_id : i \in 1..Len(files)}
               /\ nextAsset' = nextAsset + Len(files)
               /\ \E store \in StoreOutcomes :
                     /\ photos' = create_photos_bulk(
                                      build_photos(wing_id, uploaded_files),
                                      store)
                     /\ nextPhotoId' = IF committed(store)
                                       THEN nextPhotoId + Len(files)
                                       ELSE nextPhotoId
                     /\ Reply(UploadPhotosRequest(wing_id, files,
                                                  store # "ok"),
                              store_response(store),
                              << UploadCall("upload_images_bulk", folder,
                                            Len(files), TRUE) >>)

\* The media-host call outside the try: its exception ends the handler.
photo_delete_stops_on_failure(delete_ok) == delete_ok

\* try: delete_media(photo.cloudinary_id, ...) except Exception: log.
\* Whether the handler goes on to the store after the media-host call.
photo_delete_goes_on(delete_ok) == TRUE

DeletePhotoRequest(photo_id, store_failed) ==
    [op |-> "delete_photo", photo_id |-> photo_id,
     store_failed |-> store_failed]

\* DELETE /admin/photos/{photo_id}
delete_photo(photo_id) ==
    LET photo == get_photo_by_id(photo_id) IN
    /\ Idle
    /\ UNCHANGED <<wings, activities, nextActivityId, nextPhotoId, nextAsset>>
    /\ IF photo = {}
       THEN /\ Reply(DeletePhotoRequest(photo_id, FALSE), NotFoundError, <<>>)
            /\ UNCHANGED <<photos, assets>>
       ELSE \E delete_ok \in BOOLEAN :
            LET cloudinary_id == Row(photo).cloudinary_id
                issued == << DeleteCall(cloudinary_id, "image", delete_ok) >>
            IN
            /\ assets' = after_delete_media(cloudinary_id, delete_ok)
            /\ IF photo_delete_goes_on(delete_ok)
               THEN \E store_ok \in BOOLEAN :
                       /\ photos' = CRUD_delete_photo(photo_id, store_ok)
                       /\ Reply(DeletePhotoRequest(photo_id, ~store_ok),
                                IF store_ok THEN OK ELSE InternalServerError,
                                issued)
               ELSE /\ photos' = photos
                    /\ Reply(DeletePhotoRequest(photo_id, FALSE),
                             InternalServerError, issued)

\* ---------------------------------------------------- activity handlers
\* "if report_file and report_file.filename"
has_report_file(report_file) ==
    report_file.present /\ Truthy(report_file.filename)

\* folder = f"anvaya/{wing.slug}/reports"
create_reports_folder(wing) == <<"anvaya", wing.slug, "reports">>

\* f"anvaya/{wing.slug}/reports" if wing else "anvaya/reports"
update_reports_folder(wing) ==
    IF wing # {} THEN <<"anvaya", Row(wing).slug, "reports">>
    ELSE <<"anvaya", "reports">>

\* report_url: Optional[str] = None; report_cloudinary_id: ... = None
NoReport == [report_url |-> None, report_cloudinary_id |-> None]

\* report_url = upload_result["url"];
\* report_cloudinary_id = upload_result["public_id"]
create_report_fields(upload_result) ==
    [report_url |-> upload_result.url,
     report_cloudinary_id |-> upload_result.public_id]

\* The second assignment forgotten.
update_report_url_only(upload_result) ==
    [report_url |-> upload_result.url]

\* update_data["report_url"] = upload_result["url"];
\* update_data["report_cloudinary_id"] = upload_result["public_id"]
update_report_fields(upload_result) ==
    [report_url |-> upload_result.url,
     report_cloudinary_id |-> upload_result.public_id]

\* The upload's exception only logged: the handler goes on to the store.
create_goes_on_after_upload_failure == FALSE

update_goes_on_after_upload_failure == FALSE

\* except Exception: raise ExternalServiceError(...): the handler stops at
\* a failed upload_pdf.
create_stops_on_upload_failure == TRUE

update_stops_on_upload_failure == TRUE

\* activity = Activity(wing_id=wing_id, title=title.strip(), ...)
new_activity(wing_id, form, report) ==
    [wing_id |-> wing_id,
     title |-> strip(form.title),
     description |-> strip(form.description),
     activity_date |-> form.activity_date,
     faculty_coordinator |->
         IF Truthy(form.faculty_coordinator)
         THEN strip(form.faculty_coordinator)
         ELSE None,
     report_url |-> report.report_url,
     report_cloudinary_id |-> report.report_cloudinary_id]

CreateActivityRequest(wing_id, form, report_file, store_failed) ==
    [op |-> "create_activity", wing_id |-> wing_id, form |-> form,
     report_file |-> report_file, store_failed |-> store_failed]

\* created_activity = await CRUDService.create_activity(session, activity)
create_activity_store(wing_id, form, report_file, report, issued) ==
    /\ nextActivityId <= MaxActivityId
    /\ \E store \in StoreOutcomes :
          /\ activities' = CRUD_create_activity(
                               new_activity(wing_id, form, report), store)
          /\ nextActivityId' = IF committed(store) THEN nextActivityId + 1
                               ELSE nextActivityId
          /\ Reply(CreateActivityRequest(wing_id, form, report_file,
                                         store # "ok"),
                   store_response(store),
                   issued)

\* POST /admin/activities
create_activity(wing_id, form, report_file) ==
    LET wing == get_wing_by_id(wing_id)
        request == CreateActivityRequest(wing_id, form, report_file, FALSE)
    IN
    /\ Idle
    /\ UNCHANGED <<wings, photos, nextPhotoId>>
    /\ IF wing = {}
       THEN /\ Reply(request, NotFoundError, <<>>)
            /\ UNCHANGED <<activities, nextActivityId, assets, nextAsset>>
       ELSE IF ~has_report_file(report_file)
       THEN /\ create_activity_store(wing_id, form, report_file, NoReport,
                                     <<>>)
            /\ UNCHANGED <<assets, nextAsset>>
       ELSE IF validate_pdf_file(report_file) # OK
       THEN /\ Reply(request, validate_pdf_file(report_file), <<>>)
            /\ UNCHANGED <<activities, nextActivityId, assets, nextAsset>>
       ELSE LET folder == create_reports_folder(Row(wing))
                upload_result == upload_pdf(report_file, folder)
                failed == << UploadCall("upload_pdf", folder, 1, FALSE) >>
            IN
            \/ \* upload_pdf raises
               /\ UNCHANGED <<assets, nextAsset>>
               /\ IF create_stops_on_upload_failure
                  THEN /\ Reply(request, ExternalServiceError, failed)
                       /\ UNCHANGED <<activities, nextActivityId>>
                  ELSE create_activity_store(wing_id, form, report_file,
                                             NoReport, failed)
            \/ \* upload_pdf returns
               /\ nextAsset <= MaxAssets
               /\ assets' = assets \cup {upload_result.public_id}
               /\ nextAsset' = nextAsset + 1
               /\ create_activity_store(
                      wing_id, form, report_file,
                      create_report_fields(upload_result),
                      << UploadCall("upload_pdf", folder, 1, TRUE) >>)

FormFields == {"title", "description", "activity_date", "faculty_coordinator"}

\* update_data built without the "is not None" tests.
build_update_data_unconditionally(form) ==
    [k \in FormFields |->
        IF k = "activity_date" \/ form[k] = None THEN form[k]
        ELSE strip(form[k])]

\* update_data: the keys of the supplied fields ("is not None"), the text
\* ones stripped.
build_update_data(form) ==
    [k \in {f \in FormFields : form[f] # None} |->
        CASE k = "activity_date" -> form[k]
          [] k = "faculty_coordinator" ->
                IF Truthy(form[k]) THEN strip(form[k]) ELSE None
          [] OTHER -> strip(form[k])]

UpdateActivityRequest(activity_id, form, report_file, store_failed) ==
    [op |-> "update_activity", activity_id |-> activity_id, form |-> form,
     report_file |-> report_file, store_failed |-> store_failed]

\* updated_activity = await CRUDService.update_activity(session, id, data)
update_activity_store(activity_id, form, report_file, update_data, issued) ==
    \E store \in StoreOutcomes :
        /\ activities' = CRUD_update_activity(activity_id, update_data,
                                              store)
        /\ Reply(UpdateActivityRequest(activity_id, form, report_file,
                                       store # "ok"),
                 store_response(store),
                 issued)

\* The media-host calls of a replacement with the upload issued first.
replacement_calls_upload_first(deleted, upload) == << upload >> \o deleted

\* The media-host calls of a replacement: the delete of the old PDF (if the
\* activity has one) comes before the upload of the new one.
replacement_calls(deleted, upload) == deleted \o << upload >>

\* PUT /admin/activities/{activity_id}
update_activity(activity_id, form, report_file) ==
    LET found == get_activity_by_id(activity_id)
        request == UpdateActivityRequest(activity_id, form, report_file,
                                         FALSE)
        update_data == build_update_data(form)
    IN
    /\ Idle
    /\ UNCHANGED <<wings, photos, nextPhotoId, nextActivityId>>
    /\ IF found = {}
       THEN /\ Reply(request, NotFoundError, <<>>)
            /\ UNCHANGED <<activities, assets, nextAsset>>
       ELSE IF ~has_report_file(report_file)
       THEN /\ update_activity_store(activity_id, form, report_file,
                                     update_data, <<>>)
            /\ UNCHANGED <<assets, nextAsset>>
       ELSE IF validate_pdf_file(report_file) # OK
       THEN /\ Reply(request, validate_pdf_file(report_file), <<>>)
            /\ UNCHANGED <<activities, assets, nextAsset>>
       ELSE \E delete_ok \in BOOLEAN :
            LET old == Row(found).report_cloudinary_id
                \* Delete old PDF if exists (failure only logged)
                deleted == IF Truthy(old)
                           THEN << DeleteCall(old, "raw", delete_ok) >>
                           ELSE <<>>
                remaining == IF Truthy(old)
                             THEN after_delete_media(old, delete_ok)
                             ELSE assets
                folder == update_reports_folder(
                              get_wing_by_id(Row(found).wing_id))
                upload_result == upload_pdf(report_file, folder)
                failed == replacement_calls(
                              deleted,
                              UploadCall("upload_pdf", folder, 1, FALSE))
            IN
            /\ Truthy(old) \/ delete_ok
            /\ \/ \* upload_pdf raises
                  /\ assets' = remaining
                  /\ nextAsset' = nextAsset
                  /\ IF update_stops_on_upload_failure
                     THEN /\ Reply(request, ExternalServiceError, failed)
                          /\ UNCHANGED activities
                     ELSE update_activity_store(activity_id, form,
                                                report_file, update_data,
                                                failed)
               \/ \* upload_pdf returns
                  /\ nextAsset <= MaxAssets
                  /\ assets' = remaining \cup {upload_result.public_id}
                  /\ nextAsset' = nextAsset + 1
                  /\ update_activity_store(
                         activity_id, form, report_file,
                         update_report_fields(upload_result) @@ update_data,
                         replacement_calls(
                             deleted,
                             UploadCall("upload_pdf", folder, 1, TRUE)))

\* The media-host delete issued without the test for a report.
report_delete_calls_untested(activity, delete_ok) ==
    << DeleteCall(activity.report_cloudinary_id, "raw", delete_ok) >>

\* "if activity.report_cloudinary_id: try: delete_media(...) except: log"
report_delete_calls(activity, delete_ok) ==
    IF Truthy(activity.report_cloudinary_id)
    THEN << DeleteCall(activity.report_cloudinary_id, "raw", delete_ok) >>
    ELSE <<>>

DeleteActivityRequest(activity_id, store_failed) ==
    [op |-> "delete_activity", activity_id |-> activity_id,
     store_failed |-> store_failed]

\* DELETE /admin/activities/{activity_id}
delete_activity(activity_id) ==
    LET found == get_activity_by_id(activity_id) IN
    /\ Idle
    /\ UNCHANGED <<wings, photos, nextPhotoId, nextActivityId, nextAsset>>
    /\ IF found = {}
       THEN /\ Reply(DeleteActivityRequest(activity_id, FALSE),
                     NotFoundError, <<>>)
            /\ UNCHANGED <<activities, assets>>
       ELSE \E delete_ok \in BOOLEAN, store_ok \in BOOLEAN :
            LET issued == report_delete_calls(Row(found), delete_ok) IN
            /\ issued # <<>> \/ delete_ok
            /\ assets' = IF issued # <<>>
                         THEN after_delete_media(issued[1].public_id,
                                                 issued[1].ok)
                         ELSE assets
            /\ activities' = CRUD_delete_activity(activity_id, store_ok)
            /\ Reply(DeleteActivityRequest(activity_id, ~store_ok),
                     IF store_ok THEN OK ELSE InternalServerError,
                     issued)

\* ----------------------------------------------------------------- inputs
File(filename) == [present |-> TRUE, filename |-> filename]

\* report_file: Optional[UploadFile] = File(None)
NoFile == [present |-> FALSE, filename |-> None]

\* Uploaded image files: an allowed extension (in upper case, behind a
\* second dot), a disallowed one, and a part without a file name.
ImageFiles ==
    { File(<<"b", ".", "x", ".", "P", "N", "G">>),
      File(<<"c", ".", "p", "d", "f">>),
      File(<<>>) }

Batches == UNION { [1..n -> ImageFiles] : n \in 1..MaxBatch }

\* Report files: none, a part without a file name, a PDF (upper case), and
\* a file that is no PDF.
ReportFiles ==
    { NoFile,
      File(<<>>),
      File(<<"r", ".", "P", "D", "F">>),
      File(<<"r", ".", "j", "p", "g">>) }

\* Wing identifiers a request may name: the two wings and an unknown one.
WingIds == {1, 2, 9}

\* Wing identifiers a create_activity request names.
ActivityWingIds == {2, 9}

PhotoIds == 1..(MaxAssets + 1)

ActivityIds == 1..(MaxActivityId + 1)

\* Activity identifiers an update_activity request names: the first
\* activity and an unknown one.
UpdateActivityIds == {1, 9}

\* The form of a create_activity request (the framework has checked
\* min_length and max_length; it hands an empty form string on as None).
CreateForm ==
    [title |-> <<"A", " ">>,
     description |-> <<"x">>,
     activity_date |-> <<2023, 12, 31>>,
     faculty_coordinator |-> None]

\* The values an update_activity request supplies, per field.
UpdateValues ==
    [title |-> <<" ", "B", " ">>,
     description |-> <<"y", "\t">>,
     activity_date |-> <<2024, 1, 1>>,
     faculty_coordinator |-> <<" ", "Q">>]

\* Every subset of the four fields supplied, the others None (the form
\* layer hands an empty string on as None, that is, as not supplied).
UpdateForms ==
    { [k \in FormFields |-> IF k \in S THEN UpdateValues[k] ELSE None]
      : S \in SUBSET FormFields }

Supplied(form) == {k \in FormFields : form[k] # None}

\* update_activity requests: every form without a report file; with one,
\* the forms supplying no field, the title, or all four.
UpdateRequests ==
    { <<form, NoFile>> : form \in UpdateForms } \cup
    { <<form, file>> :
        form \in {f \in UpdateForms :
                     Supplied(f) \in {{}, {"title"}, FormFields}},
        file \in ReportFiles \ {NoFile} }

\* The wings the store is seeded with.
SeededWings ==
    { [id |-> 1, slug |-> "codezero", name |-> "CodeZero"],
      [id |-> 2, slug |-> "robotics", name |-> "Robotics"] }

Init ==
    /\ wings = SeededWings
    /\ photos = {}
    /\ activities = {}
    /\ nextPhotoId = 1
    /\ nextActivityId = 1
    /\ assets = {}
    /\ nextAsset = 1
    /\ req = [op |-> "none"]
    /\ resp = OK
    /\ calls = <<>>
    /\ inflight = NoSessions

UploadPhotos ==
    \E wing_id \in WingIds, files \in Batches : upload_photos(wing_id, files)

DeletePhoto == \E photo_id \in PhotoIds : delete_photo(photo_id)

CreateActivity ==
    \E wing_id \in ActivityWingIds, report_file \in ReportFiles :
        create_activity(wing_id, CreateForm, report_file)

\* An activity without report, as the photo requests find it in the store.
CreatePlainActivity == create_activity(2, CreateForm, NoFile)

UpdateActivity ==
    \E activity_id \in UpdateActivityIds, r \in UpdateRequests :
        update_activity(activity_id, r[1], r[2])

DeleteActivity == \E activity_id \in ActivityIds : delete_activity(activity_id)

\* The photo requests.
NextPhotos ==
    \/ UploadPhotos
    \/ DeletePhoto
    \/ CreatePlainActivity
    \/ Respond

SpecPhotos == Init /\ [][NextPhotos]_vars

\* The activity requests.
NextActivities ==
    \/ CreateActivity
    \/ UpdateActivity
    \/ DeleteActivity
    \/ Respond

SpecActivities == Init /\ [][NextActivities]_vars

\* Wing identifiers an upload_photos request of the combined specification
\* names: the first wing and an unknown one.
PhotoWingIds == {1, 9}

\* The requests the combined specification draws.  An upload carries one
\* file kind throughout the batch.
AdminUploadPhotos ==
    \E wing_id \in PhotoWingIds, files \in Batches :
        /\ \A i \in 1..Len(files) : files[i] = files[1]
        /\ upload_photos(wing_id, files)

\* A create_activity comes without a report file.
AdminCreateActivity ==
    \E wing_id \in ActivityWingIds : create_activity(wing_id, CreateForm, NoFile)

\* An update_activity supplies the title, or a PDF alone.
AdminUpdateActivity ==
    \E activity_id \in UpdateActivityIds, r \in UpdateRequests :
        /\ \/ Supplied(r[1]) = {"title"} /\ r[2] = NoFile
           \/ Supplied(r[1]) = {} /\ validate_pdf_file(r[2]) = OK
        /\ update_activity(activity_id, r[1], r[2])

\* All five admin requests, in any order.
NextAdmin ==
    \/ AdminUploadPhotos
    \/ DeletePhoto
    \/ AdminCreateActivity
    \/ AdminUpdateActivity
    \/ DeleteActivity
    \/ Respond

SpecAdmin == Init /\ [][NextAdmin]_vars

\* ---------------------------------------------------------- public reads
\* A handler's successful answer with its body.
Answer(body) == [status |-> 200, error_code |-> "OK", body |-> body]

\* An exception of the application's hierarchy, as its constructor leaves
\* it: "self.error_code = error_code or ...", "self.details = details or {}".
\* details is a dict, here a function of its keys; <<>> is the empty one.
AnvayaException(message, status_code, error_code, details) ==
    [message |-> message, status_code |-> status_code,
     error_code |-> error_code, details |-> details]

\* AnvayaException.to_dict: "if self.details: response["details"] = ..."
to_dict(exc) ==
    IF DOMAIN exc.details # {}
    THEN [detail |-> exc.message, error_code |-> exc.error_code,
          details |-> exc.details]
    ELSE [detail |-> exc.message, error_code |-> exc.error_code]

\* @app.exception_handler(AnvayaException): the response to a domain error.
anvaya_exception_handler(exc) ==
    [status |-> exc.status_code, error_code |-> exc.error_code,
     body |-> to_dict(exc)]

\* @app.exception_handler(Exception): the response to any other exception.
generic_exception_handler ==
    [status |-> 500, error_code |-> "INTERNAL_SERVER_ERROR",
     body |-> [detail |-> "An internal server error occurred. Please try again later.",
               error_code |-> "INTERNAL_SERVER_ERROR"]]

\* The application registers no handler for the framework's HTTPException
\* and RequestValidationError: the framework answers them with its own,
\* whose body is {"detail": ...} and nothing else.
http_exception_handler(status_code, detail) ==
    [status |-> status_code, error_code |-> "", body |-> [detail |-> detail]]

\* A query parameter outside its declared range (Query(ge=..., le=...)): the
\* framework refuses the request before the handler runs.
RequestValidationError ==
    http_exception_handler(422, "request validation failed")

\* NotFoundError("Wing", slug=slug): no identifier, the slug as a keyword.
WingNotFound(slug) ==
    AnvayaException(<<"Wing not found", "slug", slug>>, 404, "NOT_FOUND",
                    [resource |-> "Wing", slug |-> slug])

\* An Optional[int] query parameter: <<>> is None, <<n>> is the value n.
NoInt == <<>>

\* date comparison, on (year, month, day).
date_before(d, e) ==
    \/ d[1] < e[1]
    \/ d[1] = e[1] /\ d[2] < e[2]
    \/ d[1] = e[1] /\ d[2] = e[2] /\ d[3] < e[3]

\* activity.activity_date.year
year_of(d) == d[1]

\* order_by(Activity.activity_date.desc()): the orders the store may return
\* the rows in; rows of the same date come in any order.
RECURSIVE by_activity_date_desc(_)
by_activity_date_desc(rows) ==
    IF rows = {} THEN { <<>> }
    ELSE UNION { { <<m>> \o rest : rest \in by_activity_date_desc(rows \ {m}) }
                 : m \in { r \in rows :
                             \A q \in rows :
                                ~date_before(r.activity_date,
                                             q.activity_date) } }

\* CRUDService.get_all_activities_with_wings: select(Activity, Wing)
\* .join(Wing, Activity.wing_id == Wing.id).order_by(activity_date.desc())
get_all_activities_with_wings ==
    { [i \in 1..Len(o) |->
          [activity |-> o[i], wing |-> Row(get_wing_by_id(o[i].wing_id))]]
      : o \in by_activity_date_desc(
                 {a \in activities : get_wing_by_id(a.wing_id) # {}}) }

\* The filter left out: every activity is counted.
counted_whatever_year(activity_year, year) == TRUE

\* "if year is not None and activity_year != year: continue"
counted(activity_year, year) == year = NoInt \/ activity_year = year[1]

\* The year collected only after the filter has let the activity through.
year_collected_after_filter(activity_year, year) ==
    year = NoInt \/ activity_year = year[1]

\* years_set.add(activity_year) stands before the filter.
year_collected(activity_year, year) == TRUE

\* wing_stats[wing.id]["count"] += 1, on a dict that keeps insertion order:
\* the entries as a sequence.
add_to_wing_stats(wing_stats, wing) ==
    IF \E i \in 1..Len(wing_stats) : wing_stats[i].wing_id = wing.id
    THEN [i \in 1..Len(wing_stats) |->
             IF wing_stats[i].wing_id = wing.id
             THEN [wing_stats[i] EXCEPT
                      !.wing_name = wing.name,
                      !.wing_slug = wing.slug,
                      !.activity_count = @ + 1]
             ELSE wing_stats[i]]
    ELSE Append(wing_stats,
                [wing_id |-> wing.id, wing_name |-> wing.name,
                 wing_slug |-> wing.slug, activity_count |-> 1])

\* "for activity, wing in activities_with_wings": wing_stats after the loop.
RECURSIVE wing_stats_of(_, _)
wing_stats_of(rows, year) ==
    IF rows = <<>> THEN <<>>
    ELSE LET before == wing_stats_of(SubSeq(rows, 1, Len(rows) - 1), year)
             last == rows[Len(rows)]
         IN  IF counted(year_of(last.activity.activity_date), year)
             THEN add_to_wing_stats(before, last.wing)
             ELSE before

\* years_set after the loop.
years_set_of(rows, year) ==
    { year_of(rows[i].activity.activity_date) :
        i \in { j \in 1..Len(rows) :
                  year_collected(year_of(rows[j].activity.activity_date),
                                 year) } }

\* statistics.sort(key=lambda x: x["activity_count"], reverse=True): a
\* stable sort, entries of the same count keep their order.
RECURSIVE sort_by_count_desc(_)
sort_by_count_desc(entries) ==
    IF entries = <<>> THEN <<>>
    ELSE LET first == CHOOSE i \in 1..Len(entries) :
                         /\ \A j \in 1..Len(entries) :
                               entries[j].activity_count
                                   <= entries[i].activity_count
                         /\ \A j \in 1..(i - 1) :
                               entries[j].activity_count
                                   < entries[i].activity_count
         IN  <<entries[first]>> \o
             sort_by_count_desc(
                 SubSeq(entries, 1, first - 1) \o
                 SubSeq(entries, first + 1, Len(entries)))

\* sorted(list(years_set), reverse=True)
RECURSIVE sorted_desc(_)
sorted_desc(numbers) ==
    IF numbers = {} THEN <<>>
    ELSE LET m == CHOOSE n \in numbers : \A k \in numbers : k <= n
         IN  <<m>> \o sorted_desc(numbers \ {m})

\* Query(default=None, ge=2000, le=2100)
year_in_range(year) == year = NoInt \/ (year[1] >= 2000 /\ year[1] <= 2100)

StatisticsRequest(year) == [op |-> "get_activity_statistics", year |-> year]

\* GET /statistics/activities
get_activity_statistics(year) ==
    /\ Idle
    /\ UNCHANGED <<wings, photos, activities, nextPhotoId, nextActivityId,
                   assets, nextAsset>>
    /\ IF ~year_in_range(year)
       THEN Reply(StatisticsRequest(year), RequestValidationError, <<>>)
       ELSE \E rows \in get_all_activities_with_wings :
               Reply(StatisticsRequest(year),
                     Answer([statistics |->
                                 sort_by_count_desc(wing_stats_of(rows, year)),
                             available_years |->
                                 sorted_desc(years_set_of(rows, year)),
                             filtered_year |-> year]),
                     <<>>)

\* The Activity row that create_activity stores for a wing and a date.
StoredActivity(id, wing_id, activity_date) ==
    [id |-> id] @@
    new_activity(wing_id,
                 [CreateForm EXCEPT !.activity_date = activity_date],
                 NoReport)

\* Largest number of activities in the store the statistics are taken of.
MaxStored == 4

\* Dates of the stored activities: two years, two dates in one of them.
StoredDates == { <<2023, 12, 31>>, <<2024, 1, 1>>, <<2024, 6, 15>> }

\* Stores of up to MaxStored activities, as create_activity leaves them:
\* identifiers 1..n, each activity with one of the wings and of the dates.
StatisticsStores ==
    UNION { { { StoredActivity(i, f[i][1], f[i][2]) : i \in 1..n }
              : f \in [1..n -> {w.id : w \in SeededWings} \X StoredDates] }
            : n \in 0..MaxStored }

\* The year filters requested: none, years with and without activities, and
\* years outside the declared range.
StatisticsYears == { NoInt, <<1999>>, <<2000>>, <<2023>>, <<2024>>, <<2101>> }

InitStatistics ==
    /\ wings = SeededWings
    /\ photos = {}
    /\ activities \in StatisticsStores
    /\ nextPhotoId = 1
    /\ nextActivityId = Cardinality(activities) + 1
    /\ assets = {}
    /\ nextAsset = 1
    /\ req = [op |-> "none"]
    /\ resp = OK
    /\ calls = <<>>
    /\ inflight = NoSessions

GetActivityStatistics ==
    \E year \in StatisticsYears : get_activity_statistics(year)

NextStatistics ==
    \/ GetActivityStatistics
    \/ Respond

SpecStatistics == InitStatistics /\ [][NextStatistics]_vars

\* A lookup that falls back to the first wing when no slug matches.
get_wing_by_slug_or_first(slug) ==
    IF \E w \in wings : w.slug = slug
    THEN {w \in wings : w.slug = slug}
    ELSE {w \in wings : \A v \in wings : w.id <= v.id}

\* CRUDService.get_wing_by_slug: select(Wing).where(Wing.slug == slug)
get_wing_by_slug(slug) == {w \in wings : w.slug = slug}

\* order_by(Photo.uploaded_at.desc()): the orders the store may return the
\* rows in; rows of the same uploaded_at come in any order.
RECURSIVE by_uploaded_at_desc(_)
by_uploaded_at_desc(rows) ==
    IF rows = {} THEN { <<>> }
    ELSE UNION { { <<m>> \o rest : rest \in by_uploaded_at_desc(rows \ {m}) }
                 : m \in { r \in rows :
                             \A q \in rows :
                                q.uploaded_at <= r.uploaded_at } }

\* .limit(limit).offset(offset) on the ordered rows.
page(ordered, limit, offset) ==
    [i \in 1..(IF Len(ordered) - offset < limit
               THEN (IF Len(ordered) - offset < 0 THEN 0
                     ELSE Len(ordered) - offset)
               ELSE limit)
        |-> ordered[offset + i]]

\* CRUDService.get_photos_by_wing: the pages the store may return.
get_photos_by_wing(wing_id, limit, offset) ==
    { page(o, limit, offset)
      : o \in by_uploaded_at_desc({p \in photos : p.wing_id = wing_id}) }

\* limit: Query(default=100, ge=1, le=500); offset: Query(default=0, ge=0)
PhotosLimitMin == 1

PhotosLimitMax == 500

PhotosOffsetMin == 0

\* Bounds that clamp nothing and refuse nothing.
photos_query_unchecked(limit, offset) == TRUE

photos_query_in_range(limit, offset) ==
    /\ limit >= PhotosLimitMin
    /\ limit <= PhotosLimitMax
    /\ offset >= PhotosOffsetMin

WingPhotosRequest(slug, limit, offset) ==
    [op |-> "get_wing_photos", slug |-> slug, limit |-> limit,
     offset |-> offset]

\* GET /wings/{slug}/photos
get_wing_photos(slug, limit, offset) ==
    LET wing == get_wing_by_slug(slug)
        request == WingPhotosRequest(slug, limit, offset)
    IN
    /\ Idle
    /\ UNCHANGED <<wings, photos, activities, nextPhotoId, nextActivityId,
                   assets, nextAsset>>
    /\ IF ~photos_query_in_range(limit, offset)
       THEN Reply(request, RequestValidationError, <<>>)
       ELSE IF wing = {}
       THEN Reply(request, anvaya_exception_handler(WingNotFound(slug)), <<>>)
       ELSE \E found \in get_photos_by_wing(Row(wing).id, limit, offset) :
               Reply(request, Answer(found), <<>>)

\* Slugs a public request names: the two wings and an unknown one.
Slugs == {"codezero", "robotics", "nowhere"}

\* limit values requested: both ends of the range, the values next to them
\* outside, and a page shorter than a wing's photos.
PhotoLimits == {0, 1, 2, 500, 501}

\* offset values requested.
PhotoOffsets == {-1, 0, 1, 2}

GetWingPhotos ==
    \E slug \in Slugs, limit \in PhotoLimits, offset \in PhotoOffsets :
        get_wing_photos(slug, limit, offset)

\* Uploads of valid images only, which fill the wings with photos.
ValidBatches == {files \in Batches : validate_all_images(files) = OK}

UploadValidPhotos ==
    \E wing_id \in WingIds, files \in ValidBatches :
        upload_photos(wing_id, files)

NextPhotoPages ==
    \/ UploadValidPhotos
    \/ GetWingPhotos
    \/ Respond

SpecPhotoPages == Init /\ [][NextPhotoPages]_vars

\* wing.activities.sort(key=lambda x: x.activity_date, reverse=True) on the
\* rows selectinload brought, and wing.photos.sort(key=uploaded_at, ...):
\* the wing with its relations, for every order of rows of equal key.
get_wing_with_relations(slug) ==
    UNION { { [id |-> w.id, slug |-> w.slug, name |-> w.name,
               activities |-> sorted_activities, photos |-> sorted_photos]
              : sorted_activities \in
                    by_activity_date_desc(
                        {a \in activities : a.wing_id = w.id}),
                sorted_photos \in
                    by_uploaded_at_desc({p \in photos : p.wing_id = w.id}) }
            : w \in get_wing_by_slug(slug) }

WingBySlugRequest(slug) == [op |-> "get_wing_by_slug", slug |-> slug]

\* GET /wings/{slug}
get_wing_by_slug_route(slug) ==
    LET found == get_wing_with_relations(slug) IN
    /\ Idle
    /\ UNCHANGED <<wings, photos, activities, nextPhotoId, nextActivityId,
                   assets, nextAsset>>
    /\ IF found = {}
       THEN Reply(WingBySlugRequest(slug),
                  anvaya_exception_handler(WingNotFound(slug)), <<>>)
       ELSE \E wing \in found :
               Reply(WingBySlugRequest(slug), Answer(wing), <<>>)

\* get_activities_by_wing(session, wing_id, limit: int = 100)
DefaultActivitiesLimit == 100

\* .limit(limit) on the ordered rows.
first_rows(ordered, limit) ==
    [i \in 1..(IF Len(ordered) < limit THEN Len(ordered) ELSE limit)
        |-> ordered[i]]

\* CRUDService.get_activities_by_wing: where(wing_id)
\* .order_by(activity_date.desc()).limit(limit)
get_activities_by_wing(wing_id, limit) ==
    { first_rows(o, limit)
      : o \in by_activity_date_desc({a \in activities : a.wing_id = wing_id}) }

WingActivitiesRequest(slug) == [op |-> "get_wing_activities", slug |-> slug]

\* GET /wings/{slug}/activities
get_wing_activities(slug) ==
    LET wing == get_wing_by_slug(slug) IN
    /\ Idle
    /\ UNCHANGED <<wings, photos, activities, nextPhotoId, nextActivityId,
                   assets, nextAsset>>
    /\ IF wing = {}
       THEN Reply(WingActivitiesRequest(slug),
                  anvaya_exception_handler(WingNotFound(slug)), <<>>)
       ELSE \E found \in get_activities_by_wing(Row(wing).id,
                                                DefaultActivitiesLimit) :
               Reply(WingActivitiesRequest(slug), Answer(found), <<>>)

\* verify_admin_credentials (app/services/auth.py): the credentials are
\* those of the configured admin.
verify_admin_credentials(username, password) ==
    username = "admin" /\ password = "secret"

\* create_access_token(data={"sub": username})
create_access_token(username) == <<"token", username>>

LoginRequest(username, password) ==
    [op |-> "admin_login", username |-> username, password |-> password]

\* POST /admin/login
admin_login(username, password) ==
    /\ Idle
    /\ UNCHANGED <<wings, photos, activities, nextPhotoId, nextActivityId,
                   assets, nextAsset>>
    /\ IF ~verify_admin_credentials(username, password)
       THEN Reply(LoginRequest(username, password),
                  http_exception_handler(401, "Incorrect username or password"),
                  <<>>)
       ELSE Reply(LoginRequest(username, password),
                  Answer([access_token |-> create_access_token(username),
                          token_type |-> "bearer"]),
                  <<>>)

GetWingBySlug == \E slug \in Slugs : get_wing_by_slug_route(slug)

\* Photo pages requested by the public requests: the default page, one
\* with limit and offset given, and one with a limit out of range.
GetWingPhotosPage ==
    \E slug \in Slugs, q \in { <<100, 0>>, <<1, 1>>, <<0, 0>> } :
        get_wing_photos(slug, q[1], q[2])

GetWingActivities == \E slug \in Slugs : get_wing_activities(slug)

Usernames == {"admin", "guest"}

Passwords == {"secret", "wrong"}

AdminLogin ==
    \E username \in Usernames, password \in Passwords :
        admin_login(username, password)

\* An activity without report created for either wing.
CreateWingActivity ==
    \E wing_id \in {w.id : w \in SeededWings} :
        create_activity(wing_id, CreateForm, NoFile)

\* The requests that need no token, on a store that uploads and
\* create_activity requests fill.
NextPublic ==
    \/ UploadValidPhotos
    \/ CreateWingActivity
    \/ GetWingBySlug
    \/ GetWingPhotosPage
    \/ GetWingActivities
    \/ AdminLogin
    \/ Respond

SpecPublic == Init /\ [][NextPublic]_vars

\* The requests whose errors the application itself raises: the login, reads
\* and creations that name a wing, deletions that name an activity.
NextErrors ==
    \/ AdminLogin
    \/ GetWingBySlug
    \/ GetWingActivities
    \/ CreateWingActivity
    \/ DeleteActivity
    \/ Respond

SpecErrors == Init /\ [][NextErrors]_vars

\* Largest number of activities of one wing in the stores the listings are
\* taken of: one more than the default limit of get_activities_by_wing.
MaxListed == 101

\* The date of the i-th activity of such a store: a later one for a later
\* activity, twenty-eight days to a month.
ListedDate(i) ==
    << 2000 + ((i - 1) \div 336),
       1 + (((i - 1) \div 28) % 12),
       1 + ((i - 1) % 28) >>

\* Stores of up to MaxListed activities of one wing, as create_activity
\* leaves them.
ListedStores ==
    { { StoredActivity(i, wing_id, ListedDate(i)) : i \in 1..n }
      : n \in 0..MaxListed, wing_id \in {w.id : w \in SeededWings} }

InitListing ==
    /\ wings = SeededWings
    /\ photos = {}
    /\ activities \in ListedStores
    /\ nextPhotoId = 1
    /\ nextActivityId = Cardinality(activities) + 1
    /\ assets = {}
    /\ nextAsset = 1
    /\ req = [op |-> "none"]
    /\ resp = OK
    /\ calls = <<>>
    /\ inflight = NoSessions

\* The two reads that list a wing's activities.
NextListing ==
    \/ GetWingBySlug
    \/ GetWingActivities
    \/ Respond

SpecListing == InitListing /\ [][NextListing]_vars

\* ------------------------------------------------ CRUDService, called directly
\* What a CRUDService call gave its caller: a value returned, or the
\* store's exception re-raised.
Returned(value) == [raised |-> FALSE, returned |-> value]

Raised == [raised |-> TRUE, returned |-> None]

CrudUpdateRequest(activity_id, update_data, store_failed) ==
    [op |-> "CRUDService.update_activity", activity_id |-> activity_id,
     update_data |-> update_data, store_failed |-> store_failed]

\* CRUDService.update_activity(session, activity_id, update_data), with its
\* return value: None when no activity has the id, else the activity as
\* refreshed.
crud_update_activity(activity_id, update_data) ==
    LET found == get_activity_by_id(activity_id) IN
    /\ Idle
    /\ UNCHANGED <<wings, photos, nextPhotoId, nextActivityId, assets,
                   nextAsset>>
    /\ IF found = {}
       THEN /\ activities' = activities
            /\ Reply(CrudUpdateRequest(activity_id, update_data, FALSE),
                     Returned(None), <<>>)
       ELSE \E store \in StoreOutcomes :
               /\ activities' = CRUD_update_activity(activity_id, update_data,
                                                     store)
               /\ Reply(CrudUpdateRequest(activity_id, update_data,
                                          store # "ok"),
                        IF store = "ok"
                        THEN Returned(apply_update_data(Row(found),
                                                        update_data))
                        ELSE Raised,
                        <<>>)

\* The update_data dictionaries a caller passes: keys that name fields of
\* the activity, a key that names none, both, and no key at all.
UpdateDicts ==
    { <<>>,
      [title |-> <<"Z">>],
      [nonexistent |-> <<"v">>],
      [title |-> <<"Z">>, nonexistent |-> <<"v">>],
      [description |-> <<"d">>, wing_id |-> 1, nonexistent |-> <<"v">>] }

CrudUpdateActivity ==
    \E activity_id \in ActivityIds, update_data \in UpdateDicts :
        crud_update_activity(activity_id, update_data)

\* CRUDService.update_activity on a store that create_activity requests
\* fill.
NextCrud ==
    \/ CreateWingActivity
    \/ CrudUpdateActivity
    \/ Respond

SpecCrud == Init /\ [][NextCrud]_vars

\* -------------------------------------------- concurrent activity edits
\* Requests are served concurrently, each with a session of its own.  A
\* handler gives way at each await: update_activity at its lookup
\* (admin.py:306) and, inside CRUDService.update_activity, at the commit
\* (crud.py:224).  The session keeps the row it loaded at the lookup; the
\* second get_activity_by_id (crud.py:215) hands the same object back.

\* A request whose lookup found nothing, or whose update ended.
SessionDone(id, form, loaded, response, store_failed, seen, commit_no) ==
    [pc |-> "done", activity_id |-> id, form |-> form,
     loaded |-> loaded, response |-> response,
     store_failed |-> store_failed, seen |-> seen, commit_no |-> commit_no]

\* A request past its lookup: the row its session loaded (the set of it,
\* as the lookup gives it), and how many
\* commits of the other sessions had gone before.
SessionLoaded(activity_id, form, loaded, seen) ==
    [pc |-> "loaded", activity_id |-> activity_id, form |-> form,
     loaded |-> loaded, seen |-> seen]

\* The commits made so far by the requests in flight.
commits_so_far ==
    Cardinality({s \in Sessions :
                    inflight[s].pc = "done" /\ inflight[s].commit_no > 0})

\* A version check that refuses the write of a stale row.
update_conflict_on_stale_row(loaded, current) == loaded # current

\* What the code checks of the row before it writes: nothing (no version
\* column, no lock, no comparison with the loaded row).
update_conflict(loaded, current) == FALSE

\* The unit of work at commit: the UPDATE carries the attributes whose value
\* differs from the one the session loaded; setting an attribute to its
\* loaded value is no net change and writes nothing.
net_changes(loaded, update_data) ==
    [k \in {f \in DOMAIN update_data \cap DOMAIN loaded :
                update_data[f] # loaded[f]} |-> update_data[k]]

\* update_activity up to the end of its lookup.
update_activity_lookup(s, activity_id, form) ==
    LET found == get_activity_by_id(activity_id) IN
    /\ inflight[s].pc = "idle"
    /\ inflight' =
          [inflight EXCEPT ![s] =
              IF found = {}
              THEN SessionDone(activity_id, form, {}, NotFoundError,
                               FALSE, commits_so_far, 0)
              ELSE SessionLoaded(activity_id, form, found,
                                 commits_so_far)]
    /\ UNCHANGED <<wings, photos, activities, nextPhotoId, nextActivityId,
                   assets, nextAsset, req, resp, calls>>

\* update_activity from there (no report file): update_data, then
\* CRUDService.update_activity: setattr, commit, refresh.
update_activity_commit(s) ==
    LET mine == inflight[s]
        loaded == Row(mine.loaded)
        current == get_activity_by_id(mine.activity_id)
        update_data == build_update_data(mine.form)
    IN
    /\ mine.pc = "loaded"
    /\ \E store \in StoreOutcomes :
          LET refused == current = {}
                         \/ update_conflict(loaded, Row(current))
              written == ~refused /\ committed(store)
          IN
          /\ activities' =
                IF written
                THEN (activities \ current) \cup
                     { apply_update_data(Row(current),
                                         net_changes(loaded,
                                                     update_data)) }
                ELSE activities
          /\ inflight' =
                [inflight EXCEPT ![s] =
                    SessionDone(mine.activity_id, mine.form, mine.loaded,
                                IF refused THEN InternalServerError
                                ELSE store_response(store),
                                store # "ok",
                                mine.seen,
                                IF written THEN commits_so_far + 1 ELSE 0)]
    /\ UNCHANGED <<wings, photos, nextPhotoId, nextActivityId,
                   assets, nextAsset, req, resp, calls>>

\* The response of a finished request is sent; its session closes.
close_session(s) ==
    /\ inflight[s].pc = "done"
    /\ \A t \in Sessions : inflight[t].pc # "loaded"
    /\ inflight' = [inflight EXCEPT ![s] = NoSession]
    /\ UNCHANGED <<wings, photos, activities, nextPhotoId, nextActivityId,
                   assets, nextAsset, req, resp, calls>>

\* The title an edit supplies, alone.
TitleForm(title) ==
    [k \in FormFields |-> IF k = "title" THEN title ELSE None]

\* Titles of concurrent edits: the stored one (CreateForm's, stripped) and
\* two others.
EditedTitles == { <<"A">>, <<" ", "B", " ">>, <<"C">> }

BeginEdit ==
    \E s \in Sessions, activity_id \in UpdateActivityIds,
       title \in EditedTitles :
        update_activity_lookup(s, activity_id, TitleForm(title))

CommitEdit == \E s \in Sessions : update_activity_commit(s)

CloseSession == \E s \in Sessions : close_session(s)

NextEdits ==
    \/ CreatePlainActivity
    \/ Respond
    \/ BeginEdit
    \/ CommitEdit
    \/ CloseSession

SpecEdits == Init /\ [][NextEdits]_vars

\* ------------------------------------------- concurrent photo deletions
\* delete_photo gives way at its lookup (admin.py:185) and at the store's
\* delete (admin.py:198); delete_media (admin.py:193) is called without
\* await, in one piece with what follows the lookup.

\* A delete_photo past its lookup: the row its session loaded.
DeleteLoaded(photo_id, loaded) ==
    [pc |-> "loaded", photo_id |-> photo_id, loaded |-> loaded]

\* A delete_photo that ended: its response, its media-host calls, and the
\* boolean CRUDService.delete_photo returned.
DeleteDone(photo_id, loaded, response, store_failed, issued, deleted) ==
    [pc |-> "done", photo_id |-> photo_id, loaded |-> loaded,
     response |-> response, store_failed |-> store_failed,
     calls |-> issued, deleted |-> deleted]

\* A response decided by the boolean the store's delete returned.
delete_photo_response_by_rowcount(deleted) ==
    IF deleted THEN OK ELSE NotFoundError

\* "await CRUDService.delete_photo(session, photo_id)
\*  return {"message": "Photo deleted successfully"}": the returned boolean
\* is dropped.
delete_photo_response(deleted) == OK

\* delete_photo up to the end of its lookup.
delete_photo_lookup(s, photo_id) ==
    LET found == get_photo_by_id(photo_id) IN
    /\ inflight[s].pc = "idle"
    /\ inflight' =
          [inflight EXCEPT ![s] =
              IF found = {}
              THEN DeleteDone(photo_id, {}, NotFoundError, FALSE, <<>>,
                              FALSE)
              ELSE DeleteLoaded(photo_id, found)]
    /\ UNCHANGED <<wings, photos, activities, nextPhotoId, nextActivityId,
                   assets, nextAsset, req, resp, calls>>

\* delete_photo from there: the media-host delete (best effort), then the
\* store's delete, whose rowcount says whether a row went.
delete_photo_remove(s) ==
    LET mine == inflight[s]
        cloudinary_id == Row(mine.loaded).cloudinary_id
    IN
    /\ mine.pc = "loaded"
    /\ \E delete_ok \in BOOLEAN :
          LET issued == << DeleteCall(cloudinary_id, "image", delete_ok) >>
          IN
          /\ assets' = after_delete_media(cloudinary_id, delete_ok)
          /\ IF photo_delete_goes_on(delete_ok)
             THEN \E store_ok \in BOOLEAN :
                  LET deleted == store_ok
                                 /\ get_photo_by_id(mine.photo_id) # {}
                  IN
                  /\ photos' = CRUD_delete_photo(mine.photo_id, store_ok)
                  /\ inflight' =
                        [inflight EXCEPT ![s] =
                            DeleteDone(mine.photo_id, mine.loaded,
                                       IF store_ok
                                       THEN delete_photo_response(deleted)
                                       ELSE InternalServerError,
                                       ~store_ok, issued, deleted)]
             ELSE /\ photos' = photos
                  /\ inflight' =
                        [inflight EXCEPT ![s] =
                            DeleteDone(mine.photo_id, mine.loaded,
                                       InternalServerError, FALSE, issued,
                                       FALSE)]
    /\ UNCHANGED <<wings, activities, nextPhotoId, nextActivityId,
                   nextAsset, req, resp, calls>>

\* Photo identifiers a concurrent delete_photo names: the first photo and an
\* unknown one.
DeletedPhotoIds == {1, 9}

UploadOnePhoto ==
    \E wing_id \in PhotoWingIds, files \in ValidBatches :
        upload_photos(wing_id, files)

BeginDelete ==
    \E s \in Sessions, photo_id \in DeletedPhotoIds :
        delete_photo_lookup(s, photo_id)

RemovePhoto == \E s \in Sessions : delete_photo_remove(s)

NextDeletes ==
    \/ UploadOnePhoto
    \/ Respond
    \/ BeginDelete
    \/ RemovePhoto
    \/ CloseSession

SpecDeletes == Init /\ [][NextDeletes]_vars

\* -------------------------------------------- uploads and store writes
\* The two handlers that upload to the media host and then write a new row.
NextUploads ==
    \/ UploadOnePhoto
    \/ CreateActivity
    \/ Respond

SpecUploads == Init /\ [][NextUploads]_vars

\* ================================================================ claims
\* Terms the statements below use.
WingExists(wing_id) == \E w \in wings : w.id = wing_id

SlugOf(wing_id) == (CHOOSE w \in wings : w.id = wing_id).slug

Nameless(file) == file.filename \in {None, <<>>}

\* A named file whose extension is outside the allowed image set.
DisallowedImage(file) ==
    /\ ~Nameless(file)
    /\ file_ext(file.filename) \notin ALLOWED_IMAGE_EXTENSIONS

AllowedImage(file) ==
    /\ ~Nameless(file)
    /\ file_ext(file.filename) \in ALLOWED_IMAGE_EXTENSIONS

\* The first file of a batch that is nameless or disallowed.
FirstInvalidImage(files) ==
    CHOOSE i \in 1..Len(files) :
        /\ ~AllowedImage(files[i])
        /\ \A j \in 1..(i - 1) : AllowedImage(files[j])

IsUploadPhotos(r) == r.op = "upload_photos"

C2_UploadAddsNPhotos ==
    [][ ( /\ IsUploadPhotos(req')
          /\ resp' = OK )
        => ( /\ WingExists(req'.wing_id)
             /\ \A i \in 1..Len(req'.files) : AllowedImage(req'.files[i])
             /\ photos \subseteq photos'
             /\ Cardinality(photos' \ photos) = Len(req'.files)
             /\ \A p \in photos' \ photos : p.wing_id = req'.wing_id
             /\ Cardinality({p.id : p \in photos'}) = Cardinality(photos')
             /\ Len(calls') = 1
             /\ calls'[1].fn = "upload_images_bulk"
             /\ calls'[1].folder = <<"anvaya", SlugOf(req'.wing_id)>>
             /\ calls'[1].n = Len(req'.files)
             /\ activities' = activities ) ]_vars

\* Two images were uploaded to a wing while the store held an activity.
C2_Witness ==
    /\ IsUploadPhotos(req)
    /\ resp = OK
    /\ Len(req.files) = 2
    /\ Cardinality(photos) = 2
    /\ activities # {}

\* C3: when the media-host upload of the batch fails, upload_photos ends
\* with an ExternalService error (502) and the Photo rows are those from
\* before the request.
C3_UploadFailureKeepsPhotos ==
    [][ ( /\ IsUploadPhotos(req')
          /\ calls' # <<>>
          /\ ~calls'[1].ok )
        => ( /\ resp' = Response(502, "EXTERNAL_SERVICE_ERROR")
             /\ photos' = photos ) ]_vars

\* The upload of a batch failed while the store held a photo.
C3_Witness ==
    /\ IsUploadPhotos(req)
    /\ calls # <<>>
    /\ ~calls[1].ok
    /\ resp.status = 502
    /\ photos # {}

IsDeletePhoto(r) == r.op = "delete_photo"

\* C4: delete_photo on an existing photo removes the photo's row and
\* returns success whether the media-host delete succeeds or raises (the
\* store's own delete not failing): the request fails only when the store
\* does, never because of the media host.
C4_DeletePhotoBestEffort ==
    [][ ( /\ IsDeletePhoto(req')
          /\ \E p \in photos : p.id = req'.photo_id )
        => ( /\ Len(calls') = 1
             /\ calls'[1].fn = "delete_media"
             /\ resp' # OK => req'.store_failed
             /\ ~req'.store_failed =>
                   /\ resp' = OK
                   /\ photos' = {p \in photos : p.id # req'.photo_id} ) ]_vars

\* A photo was deleted although the media-host delete raised.
C4_Witness ==
    /\ IsDeletePhoto(req)
    /\ calls # <<>>
    /\ ~calls[1].ok
    /\ resp = OK
    /\ \A p \in photos : p.id # req.photo_id
    /\ req.photo_id < nextPhotoId

IsCreateActivity(r) == r.op = "create_activity"

IsUpdateActivity(r) == r.op = "update_activity"

IsDeleteActivity(r) == r.op = "delete_activity"

\* The request carries a report file (an upload part with a file name).
CarriesReport(r) == r.report_file.present /\ ~Nameless(r.report_file)

\* The last media-host call was an upload_pdf that raised.
PdfUploadFailed(issued) ==
    /\ issued # <<>>
    /\ issued[Len(issued)].fn = "upload_pdf"
    /\ ~issued[Len(issued)].ok

\* C5: create_activity with a wing_id that matches no Wing fails with
\* NotFound (404); no Activity row is created, no media-host call is issued
\* and no asset appears, even when a report PDF is attached.
C5_UnknownWingCreatesNothing ==
    [][ ( /\ IsCreateActivity(req')
          /\ ~WingExists(req'.wing_id) )
        => ( /\ resp' = Response(404, "NOT_FOUND")
             /\ activities' = activities
             /\ calls' = <<>>
             /\ assets' = assets ) ]_vars

\* An activity with a PDF attached was refused for an unknown wing.
C5_Witness ==
    /\ IsCreateActivity(req)
    /\ ~WingExists(req.wing_id)
    /\ CarriesReport(req)
    /\ file_ext(req.report_file.filename) \in ALLOWED_PDF_EXTENSIONS
    /\ resp.status = 404

\* C6: in create_activity with an attached PDF, a failed media-host upload
\* ends the request with an ExternalService error and creates no Activity
\* row; an Activity row created by a request that carried a PDF has both
\* report fields set.
C6_CreateNeedsItsReport ==
    [][ IsCreateActivity(req')
        => ( /\ PdfUploadFailed(calls') =>
                   /\ resp' = Response(502, "EXTERNAL_SERVICE_ERROR")
                   /\ activities' = activities
             /\ CarriesReport(req') =>
                   \A a \in activities' \ activities :
                       /\ a.report_url # None
                       /\ a.report_cloudinary_id # None ) ]_vars

\* The upload of an attached PDF failed while the store held an activity.
C6_Witness ==
    /\ IsCreateActivity(req)
    /\ CarriesReport(req)
    /\ PdfUploadFailed(calls)
    /\ resp.status = 502
    /\ activities # {}

\* The activity an update_activity or delete_activity request names.
Target(r) == CHOOSE a \in activities : a.id = r.activity_id

TargetExists(r) == \E a \in activities : a.id = r.activity_id

\* The value a supplied form field is stored as.
StoredAs(k, v) ==
    CASE k = "activity_date" -> v
      [] k = "faculty_coordinator" -> IF v = <<>> THEN None ELSE strip(v)
      [] OTHER -> strip(v)

\* C7 as claimed: a successful update_activity without a report file gives
\* each supplied field the new value and leaves every other field of the
\* activity and every other row as they were.
C7_AsClaimed ==
    [][ ( /\ IsUpdateActivity(req')
          /\ ~CarriesReport(req')
          /\ resp' = OK )
        => ( /\ TargetExists(req')
             /\ activities' =
                   (activities \ {Target(req')}) \cup
                   { [k \in DOMAIN Target(req') |->
                        IF k \in FormFields /\ req'.form[k] # None
                        THEN req'.form[k]
                        ELSE Target(req')[k]] }
             /\ photos' = photos
             /\ wings' = wings ) ]_vars

\* C7, amended: a successful update_activity without a report file changes
\* exactly the supplied fields: title, description and faculty_coordinator
\* take the new value with leading and trailing whitespace stripped (an
\* empty faculty_coordinator is stored as null), activity_date takes the
\* new value; every other field of the activity (id, wing_id, report_url,
\* report_cloudinary_id included) and every other row keep their values.
C7_UpdateChangesSuppliedFields ==
    [][ ( /\ IsUpdateActivity(req')
          /\ ~CarriesReport(req')
          /\ resp' = OK )
        => ( /\ TargetExists(req')
             /\ activities' =
                   (activities \ {Target(req')}) \cup
                   { [k \in DOMAIN Target(req') |->
                        IF k \in FormFields /\ req'.form[k] # None
                        THEN StoredAs(k, req'.form[k])
                        ELSE Target(req')[k]] }
             /\ photos' = photos
             /\ wings' = wings ) ]_vars

\* The title alone was updated on an activity that has a report, next to
\* another activity.
C7_Witness ==
    /\ IsUpdateActivity(req)
    /\ ~CarriesReport(req)
    /\ Supplied(req.form) = {"title"}
    /\ resp = OK
    /\ Cardinality(activities) = 2
    /\ TargetExists(req)
    /\ Target(req).title = <<"B">>
    /\ Target(req).description = <<"x">>
    /\ Target(req).report_url # None

\* C8: in update_activity with a replacement PDF, a failed upload of the
\* new PDF fails the request (ExternalService error) and leaves the
\* activity row as it was: the report reference and every field supplied
\* in the same request keep their prior values.
C8_FailedReplacementChangesNothing ==
    [][ ( /\ IsUpdateActivity(req')
          /\ PdfUploadFailed(calls') )
        => ( /\ resp' = Response(502, "EXTERNAL_SERVICE_ERROR")
             /\ activities' = activities ) ]_vars

\* A request supplying all four fields and a PDF failed at the upload, on
\* an activity that has a report.
C8_Witness ==
    /\ IsUpdateActivity(req)
    /\ Supplied(req.form) = FormFields
    /\ PdfUploadFailed(calls)
    /\ resp.status = 502
    /\ TargetExists(req)
    /\ Target(req).report_cloudinary_id # None
    /\ Target(req).title = <<"A">>

\* C9: delete_activity on an existing activity issues exactly one
\* media-host delete, for the activity's report_cloudinary_id, when the
\* activity has a report, and none when it has no report; whether or not
\* that call fails, the row is removed and the request succeeds (the
\* store's own delete not failing).
C9_DeleteActivityReportCall ==
    [][ ( /\ IsDeleteActivity(req')
          /\ TargetExists(req') )
        => ( /\ Target(req').report_cloudinary_id # None =>
                   /\ Len(calls') = 1
                   /\ calls'[1].fn = "delete_media"
                   /\ calls'[1].public_id = Target(req').report_cloudinary_id
             /\ Target(req').report_cloudinary_id = None => calls' = <<>>
             /\ resp' # OK => req'.store_failed
             /\ ~req'.store_failed =>
                   /\ resp' = OK
                   /\ activities' = activities \ {Target(req')} ) ]_vars

\* An activity was deleted although the delete of its report raised.
C9_Witness ==
    /\ IsDeleteActivity(req)
    /\ Len(calls) = 1
    /\ ~calls[1].ok
    /\ resp = OK
    /\ ~TargetExists(req)

\* C10: every Activity row has report_url and report_cloudinary_id both
\* present or both absent.
C10_ReportFieldsPaired ==
    \A a \in activities :
        (a.report_url = None) <=> (a.report_cloudinary_id = None)

\* A report was attached by update_activity to an activity that had none,
\* next to an activity without report.
C10_Witness ==
    /\ IsUpdateActivity(req)
    /\ CarriesReport(req)
    /\ resp = OK
    /\ Len(calls) = 1
    /\ TargetExists(req)
    /\ Target(req).report_url # None
    /\ Target(req).report_cloudinary_id # None
    /\ \E a \in activities : a.report_url = None

IsStatistics(r) == r.op = "get_activity_statistics"

\* The activities of the store that a year filter lets through.
Matching(year) ==
    {a \in activities : year = NoInt \/ a.activity_date[1] = year[1]}

RECURSIVE SumOfCounts(_)
SumOfCounts(entries) ==
    IF entries = <<>> THEN 0
    ELSE entries[1].activity_count + SumOfCounts(Tail(entries))

\* C12: get_activity_statistics answers with one entry per wing that has an
\* activity matching the year filter (every activity when no year is given);
\* an entry's activity_count is the number of that wing's matching
\* activities; the entries come by activity_count, non-increasing; the
\* counts add up to the number of matching activities.
C12_StatisticsCountPerWing ==
    ( IsStatistics(req) /\ resp.status = 200 )
    => LET statistics == resp.body.statistics
           matching == Matching(req.year)
       IN  /\ { statistics[i].wing_id : i \in 1..Len(statistics) }
                  = { a.wing_id : a \in matching }
           /\ Len(statistics) = Cardinality({ a.wing_id : a \in matching })
           /\ \A i \in 1..Len(statistics) :
                  statistics[i].activity_count
                      = Cardinality({ a \in matching :
                                        a.wing_id = statistics[i].wing_id })
           /\ \A i \in 1..Len(statistics) : \A j \in i..Len(statistics) :
                  statistics[i].activity_count >= statistics[j].activity_count
           /\ SumOfCounts(statistics) = Cardinality(matching)

\* Statistics for 2024 were answered from a store that also holds an
\* activity of another year: two wings, with two and one activities.
C12_Witness ==
    /\ IsStatistics(req)
    /\ resp.status = 200
    /\ req.year = <<2024>>
    /\ \E a \in activities : a.activity_date[1] # 2024
    /\ Len(resp.body.statistics) = 2
    /\ resp.body.statistics[1].activity_count = 2
    /\ resp.body.statistics[2].activity_count = 1

\* C13: available_years is the strictly descending list of the distinct
\* years of all activities of the store, whatever the year filter, and
\* filtered_year is the requested year (none when none was given).
C13_AvailableYearsUnfiltered ==
    ( IsStatistics(req) /\ resp.status = 200 )
    => LET available_years == resp.body.available_years IN
       /\ { available_years[i] : i \in 1..Len(available_years) }
              = { a.activity_date[1] : a \in activities }
       /\ \A i \in 1..(Len(available_years) - 1) :
              available_years[i] > available_years[i + 1]
       /\ resp.body.filtered_year = req.year

\* Statistics for a year without activities still list both years.
C13_Witness ==
    /\ IsStatistics(req)
    /\ resp.status = 200
    /\ req.year = <<2000>>
    /\ resp.body.statistics = <<>>
    /\ resp.body.available_years = <<2024, 2023>>
    /\ resp.body.filtered_year = <<2000>>

IsWingPhotos(r) == r.op = "get_wing_photos"

\* The sequences of all the rows, each once, by uploaded_at descending.
UploadedAtDescending(rows) ==
    { o \in [1..Cardinality(rows) -> rows] :
        /\ \A i \in 1..Cardinality(rows) : \A j \in 1..Cardinality(rows) :
               i # j => o[i] # o[j]
        /\ \A i \in 1..(Cardinality(rows) - 1) :
               o[i].uploaded_at >= o[i + 1].uploaded_at }

\* C14: get_wing_photos refuses a limit outside 1..500 and a negative offset
\* with an error whose body carries no photos (it does not clamp the value
\* and answer with a page); for a limit and offset within range on an
\* existing wing it answers with the photos of that wing at the positions
\* offset .. offset+limit-1 (counted from 0) of an uploaded_at-descending
\* order of them.
C14_PhotoPages ==
    IsWingPhotos(req)
    => IF req.limit < 1 \/ req.limit > 500 \/ req.offset < 0
       THEN /\ resp.status = 422
            /\ DOMAIN resp.body = {"detail"}
       ELSE \A w \in wings :
               w.slug = req.slug
               => /\ resp.status = 200
                  /\ \E o \in UploadedAtDescending(
                                   {p \in photos : p.wing_id = w.id}) :
                        /\ Len(resp.body)
                               = Cardinality({ i \in 1..Len(o) :
                                                 /\ i > req.offset
                                                 /\ i <= req.offset + req.limit })
                        /\ \A i \in 1..Len(resp.body) :
                               resp.body[i] = o[req.offset + i]

\* The second page of one photo, of a wing with two photos uploaded one
\* after the other, holds the older photo.
C14_Witness ==
    /\ IsWingPhotos(req)
    /\ req.limit = 1
    /\ req.offset = 1
    /\ resp.status = 200
    /\ Len(resp.body) = 1
    /\ \E p \in photos :
          /\ p.wing_id = resp.body[1].wing_id
          /\ p.uploaded_at > resp.body[1].uploaded_at

IsSlugRead(r) ==
    r.op \in {"get_wing_by_slug", "get_wing_photos", "get_wing_activities"}

\* C15: for a slug that matches no Wing, each of GET /wings/{slug},
\* GET /wings/{slug}/photos and GET /wings/{slug}/activities fails with
\* NotFound (404, NOT_FOUND) instead of answering with an empty result, and
\* leaves the store as it was.  (A photos request whose limit or offset is
\* out of range is refused before the slug is looked at: C14.)
C15_UnknownSlugNotFound ==
    [][ ( /\ IsSlugRead(req')
          /\ \A w \in wings : w.slug # req'.slug
          /\ req'.op = "get_wing_photos"
                => req'.limit \in 1..500 /\ req'.offset >= 0 )
        => ( /\ resp'.status = 404
             /\ resp'.body.error_code = "NOT_FOUND"
             /\ wings' = wings
             /\ photos' = photos
             /\ activities' = activities
             /\ assets' = assets ) ]_vars

\* With photos and activities in the store, the activities of an unknown
\* slug were asked for and the answer was NotFound.
C15_Witness ==
    /\ req.op = "get_wing_activities"
    /\ \A w \in wings : w.slug # req.slug
    /\ photos # {}
    /\ activities # {}
    /\ resp.status = 404

\* C16 as claimed: every error response, that to a failed admin login (401)
\* included, has a body that carries both detail and error_code, and
\* carries details only when they are not empty.
C16_AsClaimed ==
    ( "body" \in DOMAIN resp /\ resp.status >= 400 )
    => ( /\ {"detail", "error_code"} \subseteq DOMAIN resp.body
         /\ "details" \in DOMAIN resp.body
               => DOMAIN resp.body.details # {} )

\* C17 as claimed: GET /wings/{slug}/activities on an existing wing answers
\* with all the activities of that wing, however many there are (the
\* activities that GET /wings/{slug} answers with), by activity_date, newest
\* first.
C17_AsClaimed ==
    ( req.op = "get_wing_activities" /\ \E w \in wings : w.slug = req.slug )
    => /\ resp.status = 200
       /\ { resp.body[i] : i \in 1..Len(resp.body) }
              = { a \in activities :
                    \E w \in wings : w.slug = req.slug /\ a.wing_id = w.id }
       /\ \A i \in 1..(Len(resp.body) - 1) :
              ~date_before(resp.body[i].activity_date,
                           resp.body[i + 1].activity_date)

\* A request during which a store call of a mutating CRUDService operation
\* raised.
StoreFailed(r) == r.op # "none" /\ r.store_failed

\* C18 as claimed: a mutating CRUDService operation that meets a store
\* failure re-raises it to its caller and leaves the store exactly as it
\* was before the call; a failed create_photos_bulk persists none of its
\* photos.
C18_AsClaimed ==
    [][ StoreFailed(req')
        => ( /\ resp' = InternalServerError
             /\ photos' = photos
             /\ activities' = activities ) ]_vars

IsCrudUpdate(r) == r.op = "CRUDService.update_activity"

ConcurrentTitleEdits ==
    /\ \A s \in Sessions :
          /\ inflight[s].pc = "done"
          /\ inflight[s].loaded # {}
          /\ ~inflight[s].store_failed
          /\ inflight[s].seen = 0
    /\ inflight[1].activity_id = inflight[2].activity_id
    /\ build_update_data(inflight[1].form).title #
       build_update_data(inflight[2].form).title

\* Both got a success response, and the stored title is the one of the
\* request that committed last.
LastCommitWins ==
    /\ \A s \in Sessions : inflight[s].response = OK
    /\ \E last \in Sessions :
          /\ \A s \in Sessions :
                inflight[s].commit_no <= inflight[last].commit_no
          /\ \A a \in get_activity_by_id(inflight[last].activity_id) :
                a.title = build_update_data(inflight[last].form).title

\* C20 as stated: whenever two concurrent update_activity requests for the
\* same activity supply the title with different values, both succeed and the
\* stored title is the one of the request that committed last.
C20_AsClaimed == ConcurrentTitleEdits => LastCommitWins

\* Each request supplies a title other than the one its session loaded.
EachChangesTitle ==
    \A s \in Sessions :
        build_update_data(inflight[s].form).title #
        Row(inflight[s].loaded).title

\* C20: when two concurrent update_activity requests for the same activity
\* supply the title with different values, each different from the title the
\* request loaded, both succeed with no conflict signalled and the stored
\* title is the one of the request that committed last; the other write is
\* overwritten.
C20_LostUpdate ==
    (ConcurrentTitleEdits /\ EachChangesTitle) => LastCommitWins

\* Two concurrent edits of the title have both succeeded and the title of
\* the one that committed first is gone from the store.
C20_Witness ==
    /\ ConcurrentTitleEdits
    /\ EachChangesTitle
    /\ LastCommitWins
    /\ \E first \in Sessions :
          /\ inflight[first].commit_no = 1
          /\ \A a \in activities :
                a.title # build_update_data(inflight[first].form).title

\* The request replaced (or tried to replace) the report of an activity that
\* had one: a valid PDF came with it and the media host was called.
ReplacesReport(r, issued) ==
    /\ IsUpdateActivity(r)
    /\ CarriesReport(r)
    /\ issued # <<>>
    /\ TargetExists(r)
    /\ Truthy(Target(r).report_cloudinary_id)

\* C21: in update_activity with a replacement PDF on an activity that has a
\* report, the delete of the old asset is issued before the upload of the new
\* PDF; when the delete succeeds and the upload fails, the request ends with
\* an ExternalService error, the row still holds the old
\* report_cloudinary_id, and that asset is gone from the media host.
C21_DeleteBeforeUpload ==
    [][ ReplacesReport(req', calls')
        => ( /\ Len(calls') = 2
             /\ calls'[1].fn = "delete_media"
             /\ calls'[1].public_id = Target(req').report_cloudinary_id
             /\ calls'[2].fn = "upload_pdf"
             /\ (calls'[1].ok /\ ~calls'[2].ok) =>
                   /\ resp' = Response(502, "EXTERNAL_SERVICE_ERROR")
                   /\ activities' = activities
                   /\ Target(req').report_cloudinary_id \notin assets' ) ]_vars

\* A replacement whose delete succeeded and whose upload failed: the row
\* names an asset the media host no longer holds.
C21_Witness ==
    /\ IsUpdateActivity(req)
    /\ CarriesReport(req)
    /\ Len(calls) = 2
    /\ calls[1].fn = "delete_media" /\ calls[1].ok
    /\ calls[2].fn = "upload_pdf" /\ ~calls[2].ok
    /\ resp.status = 502
    /\ \E a \in activities :
          /\ a.id = req.activity_id
          /\ a.report_cloudinary_id = calls[1].public_id
          /\ a.report_cloudinary_id \notin assets

\* Both requests in flight were delete_photo requests for the same photo,
\* both found it at their lookup (so both looked it up before either removed
\* it), both have ended, and the store failed neither.
InterleavedDeletes ==
    /\ \A s \in Sessions :
          /\ inflight[s].pc = "done"
          /\ inflight[s].loaded # {}
          /\ ~inflight[s].store_failed
    /\ inflight[1].photo_id = inflight[2].photo_id

\* C22: when two delete_photo requests for the same photo both pass the
\* existence check before either removes the row, both respond with success
\* (neither with NotFound), the row is removed exactly once, and the
\* media-host delete is called twice for the same cloudinary_id; the boolean
\* CRUDService.delete_photo returns does not decide the response.
C22_InterleavedDeletes ==
    InterleavedDeletes =>
        /\ \A s \in Sessions :
              /\ inflight[s].response = OK
              /\ Len(inflight[s].calls) = 1
              /\ inflight[s].calls[1].fn = "delete_media"
              /\ inflight[s].calls[1].public_id =
                 Row(inflight[1].loaded).cloudinary_id
        /\ Cardinality({s \in Sessions : inflight[s].deleted}) = 1
        /\ get_photo_by_id(inflight[1].photo_id) = {}

\* Two interleaved deletions of one photo have both answered with success,
\* one of them having removed no row.
C22_Witness ==
    /\ InterleavedDeletes
    /\ \A s \in Sessions : inflight[s].response = OK
    /\ \E s \in Sessions : ~inflight[s].deleted
    /\ \E s \in Sessions : inflight[s].deleted
    /\ get_photo_by_id(inflight[1].photo_id) = {}

\* The request uploaded to the media host and the store write after the
\* upload failed.
WriteFailedAfterUpload(r, issued) ==
    /\ IsUploadPhotos(r) \/ IsCreateActivity(r)
    /\ issued # <<>>
    /\ issued[Len(issued)].fn \in {"upload_images_bulk", "upload_pdf"}
    /\ issued[Len(issued)].ok
    /\ r.store_failed

\* C23 as claimed: when the media-host upload of upload_photos or
\* create_activity succeeds and the store write after it fails, the request
\* fails, no row is created, no media-host delete is issued, and the uploaded
\* assets stay on the media host, referenced by no row.
C23_AsClaimed ==
    [][ WriteFailedAfterUpload(req', calls')
        => ( /\ resp' = InternalServerError
             /\ photos' = photos
             /\ activities' = activities
             /\ \A i \in 1..Len(calls') : calls'[i].fn # "delete_media"
             /\ assets \subseteq assets'
             /\ assets' # assets
             /\ \A id \in assets' \ assets :
                   /\ \A p \in photos' : p.cloudinary_id # id
                   /\ \A a \in activities' :
                         a.report_cloudinary_id # id ) ]_vars

====
